---------------------------- MODULE Spec2Model ----------------------------
(***************************************************************************)
(* A model of computeSales.py: the command line program main() and the     *)
(* function compute_total_cost(price_catalogue, sales_record).             *)
(*                                                                         *)
(* Numbers.  total_cost starts as the float 0.0, so every value that ends  *)
(* in it is a binary64 float.  A float is modelled exactly: a value is a   *)
(* signed integer count of units of 2^-60, held as a sign and a magnitude  *)
(* of four 24-bit limbs (TLC's integers are 32 bits wide), and every       *)
(* arithmetic operation is the exact operation followed by rounding to 53  *)
(* significant bits, ties to even, as IEEE 754 defines it.  The inputs are *)
(* decimal literals with two fractional digits (cents) and small integer   *)
(* quantities, so no value leaves the range in which this is exact: no     *)
(* value is subnormal, infinite or NaN, and none is finer than 2^-60.      *)
(*                                                                         *)
(* Files.  The catalogue entries all have a "title" (a string) and a       *)
(* "price" (a number), and both documents are lists; a sale may lack       *)
(* 'Product', 'Quantity' or both.  The three files are three different     *)
(* files.                                                                  *)
(***************************************************************************)
EXTENDS Integers, Sequences, FiniteSets

----------------------------------------------------------------------------
(* Bounds of the model.                                                    *)

\* Longest catalogue (price entries) handed to compute_total_cost or read
\* from the catalogue file.
MaxCat == 2
\* Longest sales record handed to compute_total_cost directly.
MaxSales == 3
\* Longest sales record read from the sales file by a run of main().
MaxFileSales == 2

----------------------------------------------------------------------------
(* binary64 arithmetic.                                                    *)

\* Significant bits of a Python float (IEEE 754 binary64).
MantBits == 53
\* One limb of a magnitude holds LimbBits bits; Base is its radix.
Base == 2^24
\* Number of limbs of a magnitude, least significant first.
Limbs == 1..4
\* The unit of the fixed grid is 2^-FracBits = 2^-(2*24+12).
FracLow == 2^12

ZeroMag == <<0, 0, 0, 0>>

RECURSIVE Pow2(_)
Pow2(n) == IF n = 0 THEN 1 ELSE 2 * Pow2(n - 1)

RECURSIVE BitLenInt(_)
\* Number of bits of a natural number below Base.
BitLenInt(n) == IF n = 0 THEN 0 ELSE 1 + BitLenInt(n \div 2)

\* Number of bits of a magnitude.
BitLen(m) ==
    IF m[4] # 0 THEN 72 + BitLenInt(m[4])
    ELSE IF m[3] # 0 THEN 48 + BitLenInt(m[3])
    ELSE IF m[2] # 0 THEN 24 + BitLenInt(m[2])
    ELSE BitLenInt(m[1])

\* Carries limbs that reached Base or more into the next limb.
Normalize(m) ==
    LET c1 == m[1] \div Base
        s2 == m[2] + c1
        c2 == s2 \div Base
        s3 == m[3] + c2
        c3 == s3 \div Base
    IN  <<m[1] % Base, s2 % Base, s3 % Base, m[4] + c3>>

AddMag(a, b) == Normalize([i \in Limbs |-> a[i] + b[i]])

\* a - b for magnitudes with a >= b: borrows are negative carries
\* (\div and % round towards minus infinity).
SubMag(a, b) == Normalize([i \in Limbs |-> a[i] - b[i]])

\* a * k for a natural number k below 128.
MulSmall(a, k) == Normalize([i \in Limbs |-> a[i] * k])

LessMag(a, b) ==
    \/ a[4] < b[4]
    \/ a[4] = b[4] /\ a[3] < b[3]
    \/ a[4] = b[4] /\ a[3] = b[3] /\ a[2] < b[2]
    \/ a[4] = b[4] /\ a[3] = b[3] /\ a[2] = b[2] /\ a[1] < b[1]

\* Rounds a magnitude to MantBits significant bits, to nearest, ties to
\* even.  sticky says that the exact value lies strictly above m (digits
\* were cut below the grid), which breaks a tie upwards.
Round53(m, sticky) ==
    LET len == BitLen(m)
    IN  IF len <= MantBits THEN m
        ELSE LET d    == len - MantBits
                 p    == Pow2(d)
                 r    == m[1] % p
                 down == [m EXCEPT ![1] = m[1] - r]
                 odd  == (m[1] \div p) % 2 = 1
                 up   == r * 2 > p \/ (r * 2 = p /\ (sticky \/ odd))
             IN  IF up THEN AddMag(down, <<p, 0, 0, 0>>) ELSE down

Num(neg, mag) == [neg |-> neg /\ mag # ZeroMag, mag |-> mag]

\* The float 0.0 (line 50).
Zero == Num(FALSE, ZeroMag)

Abs(n) == IF n < 0 THEN -n ELSE n

\* float + float: the exact sum, rounded.
FAdd(x, y) ==
    IF x.neg = y.neg THEN Num(x.neg, Round53(AddMag(x.mag, y.mag), FALSE))
    ELSE IF LessMag(x.mag, y.mag)
         THEN Num(y.neg, Round53(SubMag(y.mag, x.mag), FALSE))
         ELSE Num(x.neg, Round53(SubMag(x.mag, y.mag), FALSE))

\* float * int: the exact product, rounded (the int converts exactly).
FMulInt(x, q) ==
    Num(x.neg # (q < 0), Round53(MulSmall(x.mag, Abs(q)), FALSE))

\* The float that json.load gives for a decimal literal of c cents, such as
\* 0.10 for c = 10: the binary64 nearest to c / 100.
ParseCents(c) ==
    LET n  == Normalize(<<0, 0, Abs(c) * FracLow, 0>>)
        q4 == n[4] \div 100
        r4 == n[4] % 100
        q3 == (r4 * Base + n[3]) \div 100
        r3 == (r4 * Base + n[3]) % 100
        q2 == (r3 * Base + n[2]) \div 100
        r2 == (r3 * Base + n[2]) % 100
        q1 == (r2 * Base + n[1]) \div 100
        r1 == (r2 * Base + n[1]) % 100
    IN  Num(c < 0, Round53(<<q1, q2, q3, q4>>, r1 # 0))

\* f"{x:.2f}": the decimal with two fractional digits nearest to x, ties to
\* even, as its sign and its count of cents; a negative x that rounds to
\* zero keeps its sign ("-0.00").
Format2f(x) ==
    LET h     == MulSmall(x.mag, 100)
        whole == h[4] * FracLow + h[3] \div FracLow
        frac  == <<h[1], h[2], h[3] % FracLow, 0>>
        half  == <<0, 0, FracLow \div 2, 0>>
        up    == LessMag(half, frac) \/ (frac = half /\ whole % 2 = 1)
    IN  [neg |-> x.neg, cents |-> IF up THEN whole + 1 ELSE whole]

----------------------------------------------------------------------------
(* Python values and the contents of the JSON files.                       *)

\* None; a value v that is present is <<v>>.
None == <<>>
Some(v) == <<v>>

\* str(v) as an f-string shows it: None prints as the word None.
Str(v) == IF v = None THEN "None" ELSE v[1]

SeqsUpTo(S, n) == UNION {[1..k -> S] : k \in 0..n}

\* Product titles that occur in the files.
Titles == {"A", "B"}
\* Prices of the catalogues handed to compute_total_cost, in cents: the
\* literals 0.10 and -2.00.
Prices == {10, -200}
\* Quantities of the sales handed to compute_total_cost.
Quantities == {2, -1}
\* Prices and quantities of the files a run of main() reads.
FilePrices == {10}
FileQuantities == {2}

\* A catalogue document: entries with a "title" and a "price" literal.
CatalogueDocs(prices, n) == SeqsUpTo([title : Titles, price : prices], n)

\* A sales document.  A sale is what sale.get gives for 'Product' and for
\* 'Quantity': None when the key is absent (or spelled in another case).
SaleDocs(products, quantities) ==
    [Product : products, Quantity : {Some(q) : q \in quantities} \cup {None}]

SalesDocs(products, quantities, n) == SeqsUpTo(SaleDocs(products, quantities), n)

\* The products of the sales: a title, in the catalogue or not; in the
\* files a run reads also no Product at all.
Products == {Some(t) : t \in Titles}
FileProducts == Products \cup {None}

\* json.load of a catalogue document: each price literal becomes a float.
LoadCatalogueDoc(doc) ==
    [i \in 1..Len(doc) |->
        [title |-> doc[i].title, price |-> ParseCents(doc[i].price)]]

\* The states of an input file, as open() and json.load tell them apart:
\* missing; there but not to be opened (a directory, no permission: an
\* OSError other than FileNotFoundError); bytes that are not UTF-8; text
\* that is not JSON; a JSON document.
InputFiles(docs) ==
    {[kind |-> k] : k \in {"missing", "unreadable", "undecodable", "malformed"}}
    \cup {[kind |-> "json", doc |-> d] : d \in docs}

\* The exception open(path, 'r') raises on the file, "" when it opens it.
OpenRaises(file) ==
    IF file.kind = "missing" THEN "FileNotFoundError"
    ELSE IF file.kind = "unreadable" THEN "OSError"
    ELSE ""

\* The exception json.load raises on the open file, "" when it parses it.
LoadRaises(file) ==
    IF file.kind = "undecodable" THEN "UnicodeDecodeError"
    ELSE IF file.kind = "malformed" THEN "JSONDecodeError"
    ELSE ""

\* Lines of the console and of SalesResults.txt.
UsageLine == [text |-> "Usage"]
ErrorLine(e) == [text |-> "Error", what |-> e]
WarningLine(name) == [text |-> "Product not found", product |-> Str(name)]
TotalLine(total) == [text |-> "Total Cost", amount |-> Format2f(total)]
TimeLine(e) == [text |-> "Execution Time", seconds |-> e]
StaleLine == [text |-> "stale"]

\* end_time - start_time, in hundredths of a second as :.2f shows it.
ElapsedValues == {0, 1}

\* len(sys.argv): the program name and zero to three arguments.
ArgCounts == 1..4

----------------------------------------------------------------------------
(* compute_total_cost (lines 36-63).                                       *)

\* The empty dict.
EmptyDict == <<>>

\* A mapping that kept the first price of a title (dict.setdefault).
PutIfAbsent(d, k, v) ==
    [x \in DOMAIN d \cup {k} |-> IF x \in DOMAIN d THEN d[x] ELSE v]

\* d[k] = v: the key is added, or its value replaced.
Put(d, k, v) == [x \in DOMAIN d \cup {k} |-> IF x = k THEN v ELSE d[x]]

RECURSIVE BuildFrom(_, _, _)
BuildFrom(d, cat, i) ==
    IF i > Len(cat) THEN d
    ELSE BuildFrom(Put(d, cat[i].title, cat[i].price), cat, i + 1)

\* Line 51: the dict comprehension stores the entries one after the other,
\* in the order of the catalogue.
BuildPrices(cat) == BuildFrom(EmptyDict, cat, 1)

\* A loop that took the records from the last to the first.
CurrentReversed(sales, i) == sales[Len(sales) + 1 - i]

\* Line 53: the for loop takes the records in the order of the list.
Current(sales, i) == sales[i]

\* Line 57: product_name in product_prices.  Every key is a title, a
\* string, so None is never a key.
KeyIn(name, prices) == name # None /\ name[1] \in DOMAIN prices

\* A loop body that assigned the product instead of adding it (= for +=).
SaleStepAssign(st, prices, sale) ==
    LET product_name == sale.Product
        quantity     == sale.Quantity
    IN  IF KeyIn(product_name, prices)
        THEN IF quantity = None
             THEN [st EXCEPT !.exc = "TypeError"]
             ELSE [st EXCEPT !.total_cost =
                      FMulInt(prices[product_name[1]], quantity[1])]
        ELSE [st EXCEPT !.out = Append(@, WarningLine(product_name))]

\* Lines 54-61: the body of the loop, on the locals
\* [total_cost, out, exc]: out are the lines printed, exc the exception
\* raised ("" when none).
SaleStep(st, prices, sale) ==
    LET product_name == sale.Product
        quantity     == sale.Quantity
    IN  IF KeyIn(product_name, prices)
        THEN IF quantity = None
             THEN [st EXCEPT !.exc = "TypeError"]
             ELSE [st EXCEPT !.total_cost =
                      FAdd(@, FMulInt(prices[product_name[1]], quantity[1]))]
        ELSE [st EXCEPT !.out = Append(@, WarningLine(product_name))]

\* Line 50.
ComputeStart == [total_cost |-> Zero, out |-> <<>>, exc |-> ""]

RECURSIVE RunLoop(_, _, _, _)
\* Lines 53-61 from record i on; an exception ends the loop.
RunLoop(st, prices, sales, i) ==
    IF i > Len(sales) \/ st.exc # "" THEN st
    ELSE RunLoop(SaleStep(st, prices, Current(sales, i)), prices, sales, i + 1)

\* The whole call: the total returned (or the exception raised) and the
\* lines printed.
compute_total_cost(price_catalogue, sales_record) ==
    RunLoop(ComputeStart, BuildPrices(price_catalogue), sales_record, 1)

----------------------------------------------------------------------------
(* The state of a run of main() (lines 66-103).                            *)

VARIABLES
    fs,               \* the three files: catalogue, sales, results
    argc,             \* len(sys.argv) of the current run
    pc,               \* where the run is
    opened,           \* the files that are open
    price_catalogue,  \* locals of main and of compute_total_cost
    sales_record,
    product_prices,
    total_cost,
    idx,              \* position of the for loop of line 53
    exc,              \* the exception being propagated ("" when none)
    elapsed,          \* end_time - start_time
    exit_status,      \* the status of the process once it ended (-1 before)
    events,           \* history: every print, open, close and write, in order
    prev              \* history: the previous run of the same command line

vars == <<fs, argc, pc, opened, price_catalogue, sales_record, product_prices,
          total_cost, idx, exc, elapsed, exit_status, events, prev>>

Printed(line) == [ev |-> "print", line |-> line]
OpenEv(f)   == [ev |-> "open", file |-> f]
CloseEv(f)  == [ev |-> "close", file |-> f]
WriteEv(l)  == [ev |-> "write", line |-> l]

Log(e) == events' = Append(events, e)

NoResults == [exists |-> FALSE, lines |-> <<>>]
StaleResults == [exists |-> TRUE, lines |-> <<StaleLine>>]

\* The locals before anything is assigned to them.
Fresh ==
    /\ pc = "start"
    /\ opened = {}
    /\ price_catalogue = <<>>
    /\ sales_record = <<>>
    /\ product_prices = EmptyDict
    /\ total_cost = Zero
    /\ idx = 0
    /\ exc = ""
    /\ elapsed = 0
    /\ exit_status = -1
    /\ events = <<>>

\* A run of the program on files of any of the three kinds, with
\* SalesResults.txt absent or left by something else.
Init ==
    /\ fs \in [catalogue : InputFiles(CatalogueDocs(FilePrices, MaxCat)),
               sales     : InputFiles(SalesDocs(FileProducts, FileQuantities,
                                              MaxFileSales)),
               results   : {NoResults, StaleResults}]
    /\ argc \in ArgCounts
    /\ Fresh
    /\ prev = [ran |-> FALSE, argc |-> 0, results |-> fs.results]

\* A check that let more than two arguments pass (< for !=).
ArgsAtLeast(n) == n >= 3

\* Line 74: the command line holds the program and two arguments.
ArgsOk(n) == n = 3

\* Lines 74-79.
CheckArgs ==
    /\ pc = "start"
    /\ IF ~ArgsOk(argc)
       THEN /\ Log(Printed(UsageLine))
            /\ exit_status' = 1
            /\ pc' = "exited"
       ELSE /\ pc' = "open_catalogue"
            /\ UNCHANGED <<events, exit_status>>
    /\ UNCHANGED <<fs, argc, opened, price_catalogue, sales_record,
                   product_prices, total_cost, idx, exc, elapsed, prev>>

\* open(path, 'r') of line 82 or 85: when it raises, nothing is open.
OpenInput(here, file, next) ==
    /\ pc = here
    /\ IF OpenRaises(fs[file]) # ""
       THEN /\ exc' = OpenRaises(fs[file])
            /\ pc' = "except"
            /\ UNCHANGED <<opened, events>>
       ELSE /\ opened' = opened \cup {file}
            /\ Log(OpenEv(file))
            /\ pc' = next
            /\ UNCHANGED exc
    /\ UNCHANGED <<fs, argc, price_catalogue, sales_record, product_prices,
                   total_cost, idx, elapsed, exit_status, prev>>

\* A block that closed its file only when nothing was raised inside.
CloseFileUnlessRaised(here, file, next) ==
    /\ pc = here
    /\ opened' = IF exc # "" THEN opened ELSE opened \ {file}
    /\ events' = IF exc # "" THEN events ELSE Append(events, CloseEv(file))
    /\ pc' = IF exc # "" THEN "except" ELSE next
    /\ UNCHANGED <<fs, argc, price_catalogue, sales_record, product_prices,
                   total_cost, idx, exc, elapsed, exit_status, prev>>

\* The end of a with block (lines 82-83, 85-86, 94-97): the file is closed,
\* and an exception raised inside goes on to the except clauses.
CloseFile(here, file, next) ==
    /\ pc = here
    /\ opened' = opened \ {file}
    /\ Log(CloseEv(file))
    /\ pc' = IF exc # "" THEN "except" ELSE next
    /\ UNCHANGED <<fs, argc, price_catalogue, sales_record, product_prices,
                   total_cost, idx, exc, elapsed, exit_status, prev>>

OpenCatalogue == OpenInput("open_catalogue", "catalogue", "load_catalogue")

\* Line 83.
LoadCatalogue ==
    /\ pc = "load_catalogue"
    /\ IF LoadRaises(fs.catalogue) # ""
       THEN /\ exc' = LoadRaises(fs.catalogue)
            /\ UNCHANGED price_catalogue
       ELSE /\ price_catalogue' = LoadCatalogueDoc(fs.catalogue.doc)
            /\ UNCHANGED exc
    /\ pc' = "close_catalogue"
    /\ UNCHANGED <<fs, argc, opened, sales_record, product_prices, total_cost,
                   idx, elapsed, exit_status, events, prev>>

CloseCatalogue == CloseFile("close_catalogue", "catalogue", "open_sales")

OpenSales == OpenInput("open_sales", "sales", "load_sales")

\* Line 86.
LoadSales ==
    /\ pc = "load_sales"
    /\ IF LoadRaises(fs.sales) # ""
       THEN /\ exc' = LoadRaises(fs.sales)
            /\ UNCHANGED sales_record
       ELSE /\ sales_record' = fs.sales.doc
            /\ UNCHANGED exc
    /\ pc' = "close_sales"
    /\ UNCHANGED <<fs, argc, opened, price_catalogue, product_prices,
                   total_cost, idx, elapsed, exit_status, events, prev>>

CloseSales == CloseFile("close_sales", "sales", "start_clock")

\* Line 88.
StartClock ==
    /\ pc = "start_clock"
    /\ pc' = "compute"
    /\ UNCHANGED <<fs, argc, opened, price_catalogue, sales_record,
                   product_prices, total_cost, idx, exc, elapsed, exit_status,
                   events, prev>>

\* Lines 50-51: the call of line 89 enters compute_total_cost.
ComputeEntry ==
    /\ pc = "compute"
    /\ total_cost' = ComputeStart.total_cost
    /\ product_prices' = BuildPrices(price_catalogue)
    /\ idx' = 1
    /\ pc' = "loop"
    /\ UNCHANGED <<fs, argc, opened, price_catalogue, sales_record, exc,
                   elapsed, exit_status, events, prev>>

RECURSIVE LogAll(_, _)
LogAll(log, lines) ==
    IF lines = <<>> THEN log
    ELSE LogAll(Append(log, Printed(Head(lines))), Tail(lines))

\* Lines 53-61: one turn of the loop, on sales_record[idx].
ProcessSale ==
    /\ pc = "loop"
    /\ idx <= Len(sales_record)
    /\ LET st == SaleStep([total_cost |-> total_cost, out |-> <<>>, exc |-> ""],
                          product_prices, Current(sales_record, idx))
       IN  /\ total_cost' = st.total_cost
           /\ events' = LogAll(Append(events, [ev |-> "sale", index |-> idx]),
                               st.out)
           /\ exc' = st.exc
           /\ IF st.exc # ""
              THEN pc' = "except" /\ UNCHANGED idx
              ELSE pc' = "loop" /\ idx' = idx + 1
    /\ UNCHANGED <<fs, argc, opened, price_catalogue, sales_record,
                   product_prices, elapsed, exit_status, prev>>

\* Line 63.
ComputeReturn ==
    /\ pc = "loop"
    /\ idx > Len(sales_record)
    /\ pc' = "returned"
    /\ UNCHANGED <<fs, argc, opened, price_catalogue, sales_record,
                   product_prices, total_cost, idx, exc, elapsed, exit_status,
                   events, prev>>

\* Line 90: the clock is read again; what it shows is not the program's.
StopClock ==
    /\ pc = "returned"
    /\ elapsed' \in ElapsedValues
    /\ pc' = "print_total"
    /\ UNCHANGED <<fs, argc, opened, price_catalogue, sales_record,
                   product_prices, total_cost, idx, exc, exit_status, events,
                   prev>>

\* Line 92.
PrintTotal ==
    /\ pc = "print_total"
    /\ Log(Printed(TotalLine(total_cost)))
    /\ pc' = "open_results"
    /\ UNCHANGED <<fs, argc, opened, price_catalogue, sales_record,
                   product_prices, total_cost, idx, exc, elapsed, exit_status,
                   prev>>

\* What open(path, 'a') leaves of a file: its lines stay.
Appended(file) == [exists |-> TRUE, lines |-> file.lines]

\* What open(path, 'w') leaves of a file: it is created or emptied.
Truncated(file) == [exists |-> TRUE, lines |-> <<>>]

\* Line 94.
OpenResults ==
    /\ pc = "open_results"
    /\ fs' = [fs EXCEPT !.results = Truncated(@)]
    /\ opened' = opened \cup {"results"}
    /\ Log(OpenEv("results"))
    /\ pc' = "write_total"
    /\ UNCHANGED <<argc, price_catalogue, sales_record, product_prices,
                   total_cost, idx, exc, elapsed, exit_status, prev>>

\* results_file.write(line) of lines 95 and 97.
WriteLine(here, line, next) ==
    /\ pc = here
    /\ fs' = [fs EXCEPT !.results.lines = Append(@, line)]
    /\ Log(WriteEv(line))
    /\ pc' = next
    /\ UNCHANGED <<argc, opened, price_catalogue, sales_record, product_prices,
                   total_cost, idx, exc, elapsed, exit_status, prev>>

\* A first line that formatted the elapsed time instead of the total.
WriteTotalElapsed ==
    WriteLine("write_total",
              [text |-> "Total Cost",
               amount |-> [neg |-> FALSE, cents |-> elapsed]], "write_time")

\* Line 95.
WriteTotal == WriteLine("write_total", TotalLine(total_cost), "write_time")

\* Lines 96-97.
WriteTime == WriteLine("write_time", TimeLine(elapsed), "close_results")

CloseResults == CloseFile("close_results", "results", "return")

\* main() returns (after line 97 or after an except clause): status 0.
Return ==
    /\ pc = "return"
    /\ exit_status' = 0
    /\ pc' = "done"
    /\ UNCHANGED <<fs, argc, opened, price_catalogue, sales_record,
                   product_prices, total_cost, idx, exc, elapsed, events, prev>>

\* Except clauses without the one of line 102.
CaughtNotFoundOnly == {"FileNotFoundError"}

\* The exceptions the except clauses of lines 99 and 102 catch.
Caught == {"FileNotFoundError", "JSONDecodeError"}

\* Lines 99-103.  An exception of another class leaves main(): the
\* interpreter shows the traceback and the process ends with status 1.
Except ==
    /\ pc = "except"
    /\ IF exc \in Caught
       THEN /\ Log(Printed(ErrorLine(exc)))
            /\ exc' = ""
            /\ pc' = "return"
            /\ UNCHANGED exit_status
       ELSE /\ Log([ev |-> "traceback", what |-> exc])
            /\ exit_status' = 1
            /\ pc' = "crashed"
            /\ UNCHANGED exc
    /\ UNCHANGED <<fs, argc, opened, price_catalogue, sales_record,
                   product_prices, total_cost, idx, elapsed, prev>>

\* The process has ended.
Ended == pc \in {"done", "exited", "crashed"}

\* The program is run again on the same files: a new process, whose only
\* inheritance is the file system.
Rerun ==
    /\ Ended
    /\ argc' \in ArgCounts
    /\ pc' = "start"
    /\ opened' = {}
    /\ price_catalogue' = <<>>
    /\ sales_record' = <<>>
    /\ product_prices' = EmptyDict
    /\ total_cost' = Zero
    /\ idx' = 0
    /\ exc' = ""
    /\ elapsed' = 0
    /\ exit_status' = -1
    /\ events' = <<>>
    /\ prev' = [ran |-> TRUE, argc |-> argc, results |-> fs.results]
    /\ UNCHANGED fs

Next ==
    \/ CheckArgs
    \/ OpenCatalogue
    \/ LoadCatalogue
    \/ CloseCatalogue
    \/ OpenSales
    \/ LoadSales
    \/ CloseSales
    \/ StartClock
    \/ ComputeEntry
    \/ ProcessSale
    \/ ComputeReturn
    \/ StopClock
    \/ PrintTotal
    \/ OpenResults
    \/ WriteTotal
    \/ WriteTime
    \/ CloseResults
    \/ Return
    \/ Except
    \/ Rerun

Spec == Init /\ [][Next]_vars

----------------------------------------------------------------------------
(* compute_total_cost called on its own, on any catalogue and sales        *)
(* record, as a unit test calls it.                                        *)

NoFile == [kind |-> "missing"]

InitCompute ==
    /\ fs = [catalogue |-> NoFile, sales |-> NoFile, results |-> NoResults]
    /\ argc = 1
    /\ price_catalogue \in
          {LoadCatalogueDoc(d) : d \in CatalogueDocs(Prices, MaxCat)}
    /\ sales_record \in SalesDocs(Products, Quantities, MaxSales)
    /\ pc = "compute"
    /\ opened = {}
    /\ product_prices = EmptyDict
    /\ total_cost = Zero
    /\ idx = 0
    /\ exc = ""
    /\ elapsed = 0
    /\ exit_status = -1
    /\ events = <<>>
    /\ prev = [ran |-> FALSE, argc |-> 0, results |-> NoResults]

NextCompute ==
    \/ ComputeEntry
    \/ ProcessSale
    \/ ComputeReturn

SpecCompute == InitCompute /\ [][NextCompute]_vars

----------------------------------------------------------------------------
(* What the claims speak of, said without the code's own definitions.      *)

\* The catalogue lists the product of a sale.
Listed(cat, sale) ==
    /\ sale.Product # None
    /\ \E j \in 1..Len(cat) : cat[j].title = sale.Product[1]

\* The price of the last entry of the catalogue with title t.
LastPrice(cat, t) ==
    LET last == CHOOSE i \in 1..Len(cat) :
                    /\ cat[i].title = t
                    /\ \A j \in 1..Len(cat) : cat[j].title = t => j <= i
    IN  cat[last].price

\* Every record has a Product and a numeric Quantity.
Complete(sales) ==
    \A i \in 1..Len(sales) : sales[i].Product # None /\ sales[i].Quantity # None

\* Exact arithmetic on the grid: no rounding.
ExactAdd(x, y) ==
    IF x.neg = y.neg THEN Num(x.neg, AddMag(x.mag, y.mag))
    ELSE IF LessMag(x.mag, y.mag) THEN Num(y.neg, SubMag(y.mag, x.mag))
         ELSE Num(x.neg, SubMag(x.mag, y.mag))

ExactMulInt(x, q) == Num(x.neg # (q < 0), MulSmall(x.mag, Abs(q)))

RECURSIVE ExactSum(_, _)
\* The sum of price * Quantity over the records whose product is listed.
ExactSum(cat, sales) ==
    IF sales = <<>> THEN Zero
    ELSE LET sale == Head(sales)
             rest == ExactSum(cat, Tail(sales))
         IN  IF Listed(cat, sale)
             THEN ExactAdd(ExactMulInt(LastPrice(cat, sale.Product[1]),
                                       sale.Quantity[1]), rest)
             ELSE rest

\* The records whose product is listed, in their order.
ListedOnly(cat, sales) == SelectSeq(sales, LAMBDA sale : Listed(cat, sale))

RECURSIVE FloatSum(_, _, _)
\* The float accumulation, from acc on and in the order of the records, of
\* the float products price * Quantity of complete records.
FloatSum(acc, cat, sales) ==
    IF sales = <<>> THEN acc
    ELSE FloatSum(FAdd(acc, FMulInt(LastPrice(cat, Head(sales).Product[1]),
                                    Head(sales).Quantity[1])),
                  cat, Tail(sales))

\* A whole number.
Whole(x) == x.mag[1] = 0 /\ x.mag[2] = 0 /\ x.mag[3] % FracLow = 0

\* Every price a sale is charged at is a whole number.
WholePrices(cat, sales) ==
    \A i \in 1..Len(sales) :
        Listed(cat, sales[i]) => Whole(LastPrice(cat, sales[i].Product[1]))

\* The orders the records of a sales record can come in.
Orders(sales) ==
    LET n == Len(sales)
    IN  {[i \in 1..n |-> sales[f[i]]] :
            f \in {g \in [1..n -> 1..n] :
                      \A a, b \in 1..n : a # b => g[a] # g[b]}}

\* The lines printed so far, in order.
Console == SelectSeq(events, LAMBDA e : e.ev = "print")

----------------------------------------------------------------------------
(* C1 *)

\* C1, as claimed: when every record has a Product and a numeric Quantity,
\* compute_total_cost returns the sum of price * Quantity over the records
\* whose product is in the catalogue (read here as floats add, in the order
\* given), and the value returned does not depend on the order of the
\* records.
C1_SumAnyOrder ==
    (pc = "returned" /\ Complete(sales_record)) =>
        /\ total_cost = FloatSum(Zero, price_catalogue,
                                 ListedOnly(price_catalogue, sales_record))
        /\ \A o \in Orders(sales_record) :
               compute_total_cost(price_catalogue, o).total_cost = total_cost

\* C1, amended: the value returned is the float accumulation, from 0.0 and
\* in record order, of the float products of the records whose product is
\* in the catalogue (the other records add nothing); when the prices
\* charged are whole numbers it is exactly the sum, in every order of the
\* records.
C1_FloatSumExactWhenWhole ==
    (pc = "returned" /\ Complete(sales_record)) =>
        /\ total_cost = FloatSum(Zero, price_catalogue,
                                 ListedOnly(price_catalogue, sales_record))
        /\ WholePrices(price_catalogue, sales_record) =>
              /\ total_cost = ExactSum(price_catalogue, sales_record)
              /\ \A o \in Orders(sales_record) :
                     compute_total_cost(price_catalogue, o).total_cost
                         = total_cost

\* A call returned on three complete records, one of an unknown product and
\* two charged at a whole negative price, with a negative quantity among
\* them and a total that is not zero.
C1_Witness ==
    /\ pc = "returned"
    /\ Len(sales_record) = 3
    /\ Complete(sales_record)
    /\ WholePrices(price_catalogue, sales_record)
    /\ \E i, j, k \in 1..3 :
          /\ i # j
          /\ Listed(price_catalogue, sales_record[i])
          /\ Listed(price_catalogue, sales_record[j])
          /\ sales_record[i].Quantity[1] < 0
          /\ LastPrice(price_catalogue, sales_record[i].Product[1]).neg
          /\ ~Listed(price_catalogue, sales_record[k])
    /\ total_cost # Zero

----------------------------------------------------------------------------
(* C6 *)

\* C6: the mapping built from the catalogue holds one price for each title,
\* that of the title's last entry; every sale of the product is charged at
\* it; and nothing is printed for a duplicate (the only lines printed are
\* the warnings of the records whose product is unknown).
C6_LastDuplicateWins ==
    pc \in {"loop", "returned", "except"} =>
        /\ DOMAIN product_prices
             = {price_catalogue[i].title : i \in 1..Len(price_catalogue)}
        /\ \A i \in 1..Len(price_catalogue) :
              (\A j \in (i + 1)..Len(price_catalogue) :
                   price_catalogue[j].title # price_catalogue[i].title)
              => product_prices[price_catalogue[i].title]
                     = price_catalogue[i].price
        /\ Len(Console)
             = Cardinality({i \in 1..(idx - 1) :
                               ~Listed(price_catalogue, sales_record[i])})
        /\ (pc = "returned" /\ Complete(sales_record)) =>
              total_cost = FloatSum(Zero, price_catalogue,
                                    ListedOnly(price_catalogue, sales_record))

\* A call returned on a catalogue that lists a title twice, at two prices,
\* and on sales of that product.
C6_Witness ==
    /\ pc = "returned"
    /\ \E i, j \in 1..Len(price_catalogue) :
          /\ i < j
          /\ price_catalogue[i].title = price_catalogue[j].title
          /\ price_catalogue[i].price # price_catalogue[j].price
          /\ \E k \in 1..Len(sales_record) :
                /\ sales_record[k].Product = Some(price_catalogue[i].title)
                /\ sales_record[k].Quantity # None
    /\ total_cost # Zero
    /\ Console = <<>>

----------------------------------------------------------------------------
(* The runs of main().                                                     *)

\* The command line holds two arguments after the program's name.
TwoArguments == argc = 3

Happened(e) == \E i \in 1..Len(events) : events[i] = e

\* SalesResults.txt was opened for writing in this run.
Wrote == Happened(OpenEv("results"))

BothLoad == fs.catalogue.kind = "json" /\ fs.sales.kind = "json"

\* The warnings printed so far, in order.
Warnings == SelectSeq(Console, LAMBDA e : e.line.text = "Product not found")

RECURSIVE WarningsDue(_, _)
\* One warning, naming the product, for each record whose product the
\* catalogue does not list, in the order of the records.
WarningsDue(cat, sales) ==
    IF sales = <<>> THEN <<>>
    ELSE IF Listed(cat, Head(sales)) THEN WarningsDue(cat, Tail(sales))
         ELSE <<Printed(WarningLine(Head(sales).Product))>>
                  \o WarningsDue(cat, Tail(sales))

RECURSIVE EventsDue(_, _, _)
\* What a call of compute_total_cost is to do from record i on: take up
\* each record once, in order, and warn of it right then if its product is
\* not listed.
EventsDue(cat, sales, i) ==
    IF i > Len(sales) THEN <<>>
    ELSE <<[ev |-> "sale", index |-> i]>>
         \o (IF Listed(cat, sales[i]) THEN <<>>
             ELSE <<Printed(WarningLine(sales[i].Product))>>)
         \o EventsDue(cat, sales, i + 1)

\* The Total Cost line of a results file, if it has one.
FirstLine(file) ==
    IF file.exists /\ file.lines # <<>> THEN <<file.lines[1]>> ELSE <<>>

\* The run got as far as the call of compute_total_cost.
InCompute ==
    pc \in {"start_clock", "compute", "loop", "returned", "print_total",
            "open_results", "write_total", "write_time", "close_results"}

----------------------------------------------------------------------------
(* C2 *)

\* C2: a sale that lacks Product or Quantity is never fatal: no exception
\* leaves the loop, and a run whose two files loaded takes up every record
\* and ends having written its report.
C2_RecordLackingFieldNotFatal ==
    /\ exc # "TypeError"
    /\ pc # "crashed"
    /\ (Ended /\ TwoArguments /\ BothLoad) =>
          /\ pc = "done"
          /\ Wrote
          /\ \A i \in 1..Len(sales_record) :
                 Happened([ev |-> "sale", index |-> i])

----------------------------------------------------------------------------
(* C3 *)

\* C3: each record whose product is not a key of the mapping adds nothing
\* and prints one warning naming the product, the later records are still
\* taken up, and so a run that reached the computation has printed, when it
\* ends, one warning for each record of an unknown product.
C3_OneWarningPerUnknownProduct ==
    /\ pc = "loop" =>
          Warnings = WarningsDue(price_catalogue,
                                 SubSeq(sales_record, 1, idx - 1))
    /\ (Ended /\ TwoArguments /\ BothLoad) =>
          Warnings = WarningsDue(price_catalogue, sales_record)

----------------------------------------------------------------------------
(* C4 *)

\* What is wrong with the first file that does not load.
FirstFailure ==
    IF fs.catalogue.kind # "json" THEN fs.catalogue.kind
    ELSE IF fs.sales.kind # "json" THEN fs.sales.kind
    ELSE "none"

\* A load fails because the file is not found or because its text is not
\* JSON.
LoadFails == TwoArguments /\ FirstFailure \in {"missing", "malformed"}

\* The exception the Error line reports.
LoadError ==
    IF FirstFailure = "missing" THEN "FileNotFoundError" ELSE "JSONDecodeError"

----------------------------------------------------------------------------
(* C5 *)

\* C5: with any number of arguments other than two the run prints the usage
\* message and exits with a status that is not zero; it opens no file,
\* computes nothing and leaves SalesResults.txt as it was.
C5_WrongArgumentCountExits ==
    ~TwoArguments =>
        /\ pc \in {"start", "exited"}
        /\ opened = {}
        /\ \A i \in 1..Len(events) : events[i] = Printed(UsageLine)
        /\ fs.results = prev.results
        /\ idx = 0 /\ total_cost = Zero
        /\ pc = "exited" => exit_status > 0 /\ events = <<Printed(UsageLine)>>
        /\ pc = "start" => exit_status = -1 /\ events = <<>>

\* A run given three arguments has exited, with files that would have
\* loaded and a SalesResults.txt written by the run before.
C5_Witness ==
    /\ pc = "exited"
    /\ argc = 4
    /\ BothLoad
    /\ prev.ran /\ prev.argc = 3
    /\ Len(fs.results.lines) = 2

----------------------------------------------------------------------------
(* C7 *)

\* C7: SalesResults.txt is touched only by a run whose two inputs loaded
\* and whose computation returned; once written it holds two lines and no
\* more, the Total Cost line of the total returned and the Execution Time
\* line; until then, and in every run that ends earlier, it is as it was
\* when the run started.
C7_ResultsWrittenOnlyAfterCompute ==
    /\ ~Wrote => fs.results = prev.results
    /\ pc \in {"exited", "crashed", "except"} => ~Wrote
    /\ Wrote =>
          /\ TwoArguments /\ BothLoad
          /\ pc \in {"write_total", "write_time", "close_results", "return",
                     "done"}
          /\ idx = Len(sales_record) + 1
          /\ Happened(Printed(TotalLine(total_cost)))
    /\ (Wrote /\ pc \in {"close_results", "return", "done"}) =>
          fs.results = [exists |-> TRUE,
                        lines  |-> <<TotalLine(total_cost), TimeLine(elapsed)>>]

\* A run ended having written over a SalesResults.txt that held something
\* else.
C7_Witness ==
    /\ pc = "done"
    /\ Wrote
    /\ prev.results = StaleResults
    /\ Len(sales_record) >= 1

----------------------------------------------------------------------------
(* C8 *)

\* C8: a run of the same command line on the same files as the run before
\* leaves SalesResults.txt with the Total Cost line the run before left;
\* the line a run writes is that of the total of the two inputs, whatever
\* the file held.
C8_SameInputsSameTotalLine ==
    /\ (Ended /\ prev.ran /\ prev.argc = argc) =>
          FirstLine(fs.results) = FirstLine(prev.results)
    /\ (pc = "done" /\ Wrote) =>
          FirstLine(fs.results) =
              <<TotalLine(compute_total_cost(
                              LoadCatalogueDoc(fs.catalogue.doc),
                              fs.sales.doc).total_cost)>>

\* A second run of the same command line has ended; both wrote the file,
\* with different execution times, and the total is not zero.
C8_Witness ==
    /\ pc = "done"
    /\ Wrote
    /\ prev.ran /\ prev.argc = argc
    /\ Len(prev.results.lines) = 2
    /\ prev.results.lines[2] # fs.results.lines[2]
    /\ total_cost # Zero

----------------------------------------------------------------------------
(* C9 *)

\* The file that is open at each place of main().
OpenAt(place) ==
    IF place \in {"load_catalogue", "close_catalogue"} THEN {"catalogue"}
    ELSE IF place \in {"load_sales", "close_sales"} THEN {"sales"}
    ELSE IF place \in {"write_total", "write_time", "close_results"}
         THEN {"results"}
    ELSE {}

\* C9: at most one of the three files is open at any time, each is closed
\* before the next step begins, also when reading it fails, and none is
\* open when the run has ended.
C9_OneFileOpenAtATime ==
    /\ Cardinality(opened) <= 1
    /\ opened = OpenAt(pc)
    /\ Ended => opened = {}
    /\ \A f \in {"catalogue", "sales", "results"} :
          Cardinality({i \in 1..Len(events) : events[i] = OpenEv(f)})
              = Cardinality({i \in 1..Len(events) : events[i] = CloseEv(f)})
                  + (IF f \in opened THEN 1 ELSE 0)

\* A run ended with a traceback: its sales file was opened, could not be
\* read and was closed.
C9_Witness ==
    /\ pc = "crashed"
    /\ fs.sales.kind = "undecodable"
    /\ Happened(OpenEv("catalogue")) /\ Happened(CloseEv("catalogue"))
    /\ Happened(OpenEv("sales")) /\ Happened(CloseEv("sales"))
    /\ opened = {}

----------------------------------------------------------------------------
(* C10 *)

\* C10: in a run that succeeded, each record was taken up once, in order,
\* each warning was printed when its record was taken up, the Total Cost
\* line was printed after all of them, and SalesResults.txt was opened
\* after that line.
C10_EventsInOrder ==
    (pc = "done" /\ Wrote) =>
        SelectSeq(events, LAMBDA e : e.ev \in {"sale", "print"}
                                     \/ e = OpenEv("results"))
          = EventsDue(price_catalogue, sales_record, 1)
            \o <<Printed(TotalLine(total_cost)), OpenEv("results")>>

\* A run succeeded that warned of two different products.
C10_Witness ==
    /\ pc = "done"
    /\ Wrote
    /\ Len(Warnings) = 2
    /\ Warnings[1] # Warnings[2]
    /\ total_cost = Zero

=============================================================================
